---- MODULE Spec2Model ----
(***************************************************************************)
(* Model of src/p3.ipynb: the GloVe loader (load_glove_model), the        *)
(* pairwise query (cosine_similarity), the ranking query                  *)
(* (find_most_similar) and the notebook's main cell, which loads one      *)
(* store and then issues queries against it.                              *)
(*                                                                         *)
(* Data representation                                                     *)
(*   line          the result of line.split(): a sequence of tokens        *)
(*                 (strings); a blank line is <<>>                         *)
(*   file          a sequence of lines                                     *)
(*   dict          a sequence of <<key, value>> pairs with distinct keys,  *)
(*                 in insertion order (Python dicts keep insertion order)  *)
(*   vector        a sequence of integers (np.float32 holds them exactly)  *)
(*   score         [num |-> n, densq |-> d], the real number n / sqrt(d);  *)
(*                 d = 0 is the IEEE NaN that 0.0 / 0.0 produces           *)
(*   outcome       [kind |-> k, val |-> v]: what a call returned           *)
(*                 ("None", "float", "list", "dict") or raised ("raise")   *)
(***************************************************************************)
EXTENDS Integers, Sequences, FiniteSets

VARIABLES pc, glove_vectors, call, result

vars == <<pc, glove_vectors, call, result>>

----------------------------------------------------------------------------
(* Bounds of the model. *)

\* longest file of the loader specification
MaxLines == 3
\* longest file (= largest vocabulary) of the query specification
MaxVocab == 4
\* largest top_n a query asks for
MaxTopN == 3
\* number of lines of the files of the tie-break specification
TieLines == 8

----------------------------------------------------------------------------
(* Outcomes of a call. *)

ReturnNone == [kind |-> "None", val |-> <<>>]
Return(k, v) == [kind |-> k, val |-> v]
Raise(e) == [kind |-> "raise", val |-> e]

----------------------------------------------------------------------------
(* Python dict, in insertion order. *)

Has(d, k) == \E i \in 1..Len(d) : d[i][1] = k

IndexOf(d, k) == CHOOSE i \in 1..Len(d) : d[i][1] = k

Get(d, k) == d[IndexOf(d, k)][2]

\* Variant of DictSet: d.setdefault(k, v), the first value of a key is kept.
DictSet_setdefault(d, k, v) ==
    IF Has(d, k) THEN d ELSE Append(d, <<k, v>>)

\* d[k] = v: an existing key keeps its position and takes the new value,
\* a new key is appended.
DictSet(d, k, v) ==
    IF Has(d, k)
    THEN [i \in 1..Len(d) |-> IF d[i][1] = k THEN <<k, v>> ELSE d[i]]
    ELSE Append(d, <<k, v>>)

Keys(d) == {d[i][1] : i \in 1..Len(d)}

----------------------------------------------------------------------------
(* load_glove_model *)

NumericTokens == {"-1", "0", "1"}

\* float(token) for the tokens of the model; any other token makes
\* np.array(..., dtype=np.float32) raise ValueError.
ParseFloat(tok) ==
    CASE tok = "-1" -> -1
      [] tok = "0" -> 0
      [] tok = "1" -> 1

IsNumeric(tok) == tok \in NumericTokens

np_array(tokens) == [k \in 1..Len(tokens) |-> ParseFloat(tokens[k])]

\* Variant of load_loop: the parse error is caught and the words read so far
\* are returned.
RECURSIVE load_loop_partial(_, _, _)
load_loop_partial(File, i, glove_model) ==
    IF i > Len(File)
    THEN Return("dict", glove_model)
    ELSE LET split_line == File[i] IN
         IF split_line = <<>>
         THEN Raise("IndexError")
         ELSE LET word == Head(split_line)
                  tokens == Tail(split_line)
              IN  IF \E k \in 1..Len(tokens) : ~IsNumeric(tokens[k])
                  THEN Return("dict", glove_model)
                  ELSE load_loop_partial(File, i + 1,
                                 DictSet(glove_model, word, np_array(tokens)))

RECURSIVE load_loop(_, _, _)
load_loop(File, i, glove_model) ==
    IF i > Len(File)
    THEN Return("dict", glove_model)
    ELSE LET split_line == File[i] IN
         IF split_line = <<>>
         THEN Raise("IndexError")
         ELSE LET word == Head(split_line)
                  tokens == Tail(split_line)
              IN  IF \E k \in 1..Len(tokens) : ~IsNumeric(tokens[k])
                  THEN Raise("ValueError")
                  ELSE load_loop(File, i + 1,
                                 DictSet(glove_model, word, np_array(tokens)))

load_glove_model(File) == load_loop(File, 1, <<>>)

----------------------------------------------------------------------------
(* numpy on 1-D arrays *)

RECURSIVE dot_from(_, _, _)
dot_from(vec1, vec2, k) ==
    IF k > Len(vec1) THEN 0
    ELSE vec1[k] * vec2[k] + dot_from(vec1, vec2, k + 1)

\* dot(vec1, vec2) of two arrays of the same length
dot(vec1, vec2) == dot_from(vec1, vec2, 1)

\* norm(vec) squared; norm(vec) itself is its square root
normsq(vec) == dot(vec, vec)

\* The value of  n / sqrt(d).  norm(vec1) * norm(vec2) = sqrt(d) with
\* d = normsq(vec1) * normsq(vec2); d = 0 forces n = 0, and 0.0 / 0.0 is NaN
\* (numpy warns and returns nan, it does not raise).
Score(n, d) == [num |-> n, densq |-> d]

IsNaN(s) == s.densq = 0

\* s < t as IEEE compares the two quotients: FALSE when either is NaN;
\* otherwise  a/sqrt(b) < c/sqrt(d)  decided exactly by signs and squares.
\* On the vectors of the model float32 rounding orders the quotients of one
\* query exactly as the real numbers are ordered.
ScoreLt(s, t) ==
    /\ ~IsNaN(s)
    /\ ~IsNaN(t)
    /\ LET a == s.num
           b == s.densq
           c == t.num
           d == t.densq
       IN  CASE a <= 0 /\ c >= 0 -> (a < 0 \/ c > 0)
             [] a >= 0 /\ c <= 0 -> FALSE
             [] a > 0 /\ c > 0 -> a * a * d < c * c * b
             [] a < 0 /\ c < 0 -> a * a * d > c * c * b

\* s == t as IEEE compares them: NaN equals nothing, itself included.
ScoreEq(s, t) == ~IsNaN(s) /\ ~IsNaN(t) /\ ~ScoreLt(s, t) /\ ~ScoreLt(t, s)

----------------------------------------------------------------------------
(* cosine_similarity *)

\* Variant of cosine_similarity: the membership test uses "or", so that the
\* lookup of the absent word raises KeyError.
cosine_similarity_or(word1, word2, gv) ==
    IF Has(gv, word1) \/ Has(gv, word2)
    THEN IF ~(Has(gv, word1) /\ Has(gv, word2))
         THEN Raise("KeyError")
         ELSE LET vec1 == Get(gv, word1)
                  vec2 == Get(gv, word2)
              IN  IF Len(vec1) # Len(vec2)
                  THEN Raise("ValueError")
                  ELSE Return("float",
                              Score(dot(vec1, vec2), normsq(vec1) * normsq(vec2)))
    ELSE ReturnNone

cosine_similarity(word1, word2, gv) ==
    IF Has(gv, word1) /\ Has(gv, word2)
    THEN LET vec1 == Get(gv, word1)
             vec2 == Get(gv, word2)
         IN  IF Len(vec1) # Len(vec2)
             THEN Raise("ValueError")
             ELSE Return("float",
                         Score(dot(vec1, vec2), normsq(vec1) * normsq(vec2)))
    ELSE ReturnNone

----------------------------------------------------------------------------
(* sorted(items, key=lambda item: item[1], reverse=True) as CPython's      *)
(* list.sort (3.11, 3.12; the notebook ran on 3.12.4) does it for fewer    *)
(* than 64 items: reverse the list, find the                               *)
(* leading run (count_run), reverse it if it descends, insert the other    *)
(* items by binary insertion (binarysort), reverse the list again.  The    *)
(* only comparison is key(x) < key(y).                                     *)

Reverse(a) == [i \in 1..Len(a) |-> a[Len(a) + 1 - i]]

ISLT(x, y) == ScoreLt(x[2], y[2])

\* length of the strictly descending run a[1..n], n >= 2 known to descend
RECURSIVE run_descending(_, _)
run_descending(a, n) ==
    IF n < Len(a) /\ ISLT(a[n + 1], a[n]) THEN run_descending(a, n + 1) ELSE n

\* length of the non-descending run a[1..n]
RECURSIVE run_ascending(_, _)
run_ascending(a, n) ==
    IF n < Len(a) /\ ~ISLT(a[n + 1], a[n]) THEN run_ascending(a, n + 1) ELSE n

count_run(a) ==
    IF Len(a) < 2 THEN [n |-> Len(a), descending |-> FALSE]
    ELSE IF ISLT(a[2], a[1])
         THEN [n |-> run_descending(a, 2), descending |-> TRUE]
         ELSE [n |-> run_ascending(a, 2), descending |-> FALSE]

\* binary search of binarysort: the place of pivot in a[l+1..r] (0-based l, r)
RECURSIVE bisect(_, _, _, _)
bisect(a, pivot, l, r) ==
    IF l >= r THEN l
    ELSE LET p == l + ((r - l) \div 2) IN
         IF ISLT(pivot, a[p + 1])
         THEN bisect(a, pivot, l, p)
         ELSE bisect(a, pivot, p + 1, r)

\* a with the item at 0-based index start moved to 0-based index l <= start
InsertAt(a, start, l) ==
    [i \in 1..Len(a) |->
        IF i - 1 < l \/ i - 1 > start THEN a[i]
        ELSE IF i - 1 = l THEN a[start + 1]
        ELSE a[i - 1]]

\* a[0..start-1] is sorted; insert a[start], a[start+1], ... in turn
RECURSIVE binarysort(_, _)
binarysort(a, start) ==
    IF start >= Len(a) THEN a
    ELSE binarysort(InsertAt(a, start, bisect(a, a[start + 1], 0, start)),
                    start + 1)

ReverseSlice(a, n) == [i \in 1..Len(a) |-> IF i <= n THEN a[n + 1 - i] ELSE a[i]]

list_sort(a) ==
    LET run == count_run(a)
        b == IF run.descending THEN ReverseSlice(a, run.n) ELSE a
    IN  binarysort(b, run.n)

sorted_reverse(items) == Reverse(list_sort(Reverse(items)))

\* items[:top_n] for top_n >= 0
Slice(items, top_n) ==
    SubSeq(items, 1, IF top_n < Len(items) THEN top_n ELSE Len(items))

----------------------------------------------------------------------------
(* find_most_similar *)

\* Variant of similarities_loop: the test other_word != word is missing.
RECURSIVE similarities_loop_all(_, _, _, _)
similarities_loop_all(word, gv, i, similarities) ==
    IF i > Len(gv) THEN Return("dict", similarities)
    ELSE LET other_word == gv[i][1]
             similarity == cosine_similarity(word, other_word, gv)
         IN  IF similarity.kind = "raise" THEN similarity
             ELSE similarities_loop_all(word, gv, i + 1,
                      DictSet(similarities, other_word, similarity.val))

\* the loop over glove_vectors.items(): the similarities dict after the
\* items i, i+1, ..., or the exception the first failing call raises
RECURSIVE similarities_loop(_, _, _, _)
similarities_loop(word, gv, i, similarities) ==
    IF i > Len(gv) THEN Return("dict", similarities)
    ELSE LET other_word == gv[i][1] IN
         IF other_word # word
         THEN LET similarity == cosine_similarity(word, other_word, gv) IN
              IF similarity.kind = "raise" THEN similarity
              ELSE similarities_loop(word, gv, i + 1,
                       DictSet(similarities, other_word, similarity.val))
         ELSE similarities_loop(word, gv, i + 1, similarities)

find_most_similar(word, gv, top_n) ==
    IF ~Has(gv, word) THEN ReturnNone
    ELSE LET similarities == similarities_loop(word, gv, 1, <<>>) IN
         IF similarities.kind = "raise" THEN similarities
         ELSE Return("list", Slice(sorted_reverse(similarities.val), top_n))

----------------------------------------------------------------------------
(* Inputs *)

\* the i-th word of a vocabulary; the words of a store are labels, only
\* their equality and their insertion order matter to any operation
WordSeq == <<"a", "b", "c", "d", "e", "f", "g", "h", "i", "j">>

SeqsOf(S, Lens) == UNION {[1..n -> S] : n \in Lens}

\* Loader specification: any line the file reader can hand over, the blank
\* line, the line with a word and no number, and the line with a
\* non-numeric token included; words repeat freely.
LoadWords == {"a", "b"}
LoadTokens == {"0", "1", "abc"}
LoadDims == 0..2
LoadLines ==
    {<<>>} \cup {<<w>> \o t : w \in LoadWords, t \in SeqsOf(LoadTokens, LoadDims)}
LoadFiles == SeqsOf(LoadLines, 0..MaxLines)

\* Query specification: files of numeric lines whose i-th line defines the
\* i-th word, with vectors of one or two components.
QueryTokens == {"0", "1"}
QueryDims == 1..2
FilesOver(Vecs, Lens) ==
    UNION {{[i \in 1..n |-> <<WordSeq[i]>> \o v[i]] : v \in [1..n -> Vecs]} : n \in Lens}
QueryFiles == FilesOver(SeqsOf(QueryTokens, QueryDims), 0..MaxVocab)
QueryWords == {WordSeq[i] : i \in 1..(MaxVocab + 1)}

\* Tie-break specification: a vocabulary of TieLines words with
\* one-component vectors, so that a score is 1, -1 or NaN.
TieFiles == FilesOver(SeqsOf(NumericTokens, {1}), {TieLines})
TieWords == {WordSeq[i] : i \in 1..TieLines}

TopNs == 1..MaxTopN

----------------------------------------------------------------------------
(* The notebook's main cell: load once, then query. *)

Init ==
    /\ pc = "start"
    /\ glove_vectors = <<>>
    /\ call = [op |-> "none", args |-> <<>>]
    /\ result = ReturnNone

\* glove_vectors = load_glove_model(File); an exception ends the cell and
\* leaves glove_vectors unbound
Main_Load(Files) ==
    /\ pc = "start"
    /\ \E File \in Files :
          LET r == load_glove_model(File) IN
          /\ call' = [op |-> "load_glove_model", args |-> <<File>>]
          /\ result' = r
          /\ pc' = IF r.kind = "raise" THEN "raised" ELSE "loaded"
          /\ glove_vectors' = IF r.kind = "raise" THEN glove_vectors ELSE r.val

\* similarity = cosine_similarity(word1, word2, glove_vectors); an
\* exception ends the cell
Main_Cosine(Words) ==
    /\ pc = "loaded"
    /\ \E word1 \in Words, word2 \in Words :
          LET r == cosine_similarity(word1, word2, glove_vectors) IN
          /\ call' = [op |-> "cosine_similarity", args |-> <<word1, word2>>]
          /\ result' = r
          /\ pc' = IF r.kind = "raise" THEN "raised" ELSE "answered"
    /\ glove_vectors' = glove_vectors

\* Variant of Main_FindMostSimilar: the query vector is taken with
\* glove_vectors.pop(word), which removes the query word from the store.
Main_FindMostSimilar_pop(Words) ==
    /\ pc = "loaded"
    /\ \E word \in Words, top_n \in TopNs :
          LET r == find_most_similar(word, glove_vectors, top_n) IN
          /\ call' = [op |-> "find_most_similar", args |-> <<word, top_n>>]
          /\ result' = r
          /\ pc' = IF r.kind = "raise" THEN "raised" ELSE "answered"
          /\ glove_vectors' = SelectSeq(glove_vectors, LAMBDA item : item[1] # word)

\* similar_words = find_most_similar(word, glove_vectors, top_n)
Main_FindMostSimilar(Words) ==
    /\ pc = "loaded"
    /\ \E word \in Words, top_n \in TopNs :
          LET r == find_most_similar(word, glove_vectors, top_n) IN
          /\ call' = [op |-> "find_most_similar", args |-> <<word, top_n>>]
          /\ result' = r
          /\ pc' = IF r.kind = "raise" THEN "raised" ELSE "answered"
    /\ glove_vectors' = glove_vectors

\* the answer is printed and the loop goes on to its next query; the
\* printed values are not used again
Main_Print ==
    /\ pc = "answered"
    /\ pc' = "loaded"
    /\ call' = [op |-> "none", args |-> <<>>]
    /\ result' = ReturnNone
    /\ glove_vectors' = glove_vectors

Next ==
    \/ Main_Load(QueryFiles)
    \/ Main_Cosine(QueryWords)
    \/ Main_FindMostSimilar(QueryWords)
    \/ Main_Print

Spec == Init /\ [][Next]_vars

NextLoad == Main_Load(LoadFiles)

SpecLoad == Init /\ [][NextLoad]_vars

NextTie ==
    \/ Main_Load(TieFiles)
    \/ Main_FindMostSimilar(TieWords)
    \/ Main_Print

SpecTie == Init /\ [][NextTie]_vars

----------------------------------------------------------------------------
(* Vocabulary of the properties *)

\* the arguments of the call the state records
Arg1 == call.args[1]
Arg2 == call.args[2]

\* the place of a word in the store's insertion order
Pos(word) == IndexOf(glove_vectors, word)

\* the candidates of a ranking query: the store's keys but the query word
Candidates(word) == Keys(glove_vectors) \ {word}

\* the score the pairwise query gives a candidate
ScoreOf(word, other) == cosine_similarity(word, other, glove_vectors).val

Min(x, y) == IF x < y THEN x ELSE y

\* a find_most_similar call on a present word has been answered or has raised
RankedPresent ==
    /\ call.op = "find_most_similar"
    /\ Has(glove_vectors, Arg1)

\* a line the loader parses: a word and numeric tokens only
Parses(line) ==
    /\ line # <<>>
    /\ \A k \in 2..Len(line) : IsNumeric(line[k])

\* a line some vector token of which is not numeric
NonNumeric(line) ==
    /\ line # <<>>
    /\ \E k \in 2..Len(line) : ~IsNumeric(line[k])

\* a well-formed line: a word followed by at least one numeric token
WellFormed(line) == Parses(line) /\ Len(line) >= 2

\* the last line of File whose first token is word
LastLineOf(File, word) ==
    CHOOSE i \in 1..Len(File) :
        /\ File[i][1] = word
        /\ \A j \in (i + 1)..Len(File) : File[j][1] # word

----------------------------------------------------------------------------
(* C1 *)

\* C1: a query on a word absent from the store returns None:
\* cosine_similarity when word1 or word2 is absent, find_most_similar when
\* word is absent; neither raises.
C1_AbsentWordReturnsNone ==
    /\ (/\ call.op = "cosine_similarity"
        /\ ~(Has(glove_vectors, Arg1) /\ Has(glove_vectors, Arg2)))
       => (result.kind = "None" /\ pc = "answered")
    /\ (/\ call.op = "find_most_similar"
        /\ ~Has(glove_vectors, Arg1))
       => (result.kind = "None" /\ pc = "answered")

\* C1 witness: cosine_similarity answered None with word1 present in a store
\* of several words and word2 absent.
C1_Witness ==
    /\ call.op = "cosine_similarity"
    /\ Len(glove_vectors) >= 2
    /\ Has(glove_vectors, Arg1)
    /\ ~Has(glove_vectors, Arg2)
    /\ result.kind = "None"

----------------------------------------------------------------------------
(* C2 *)

\* C2: the list find_most_similar returns for a present word holds no pair
\* for the query word, only keys of the store, and no key twice.
C2_NoSelfNoDuplicate ==
    (RankedPresent /\ result.kind = "list") =>
        /\ \A i \in 1..Len(result.val) :
              /\ result.val[i][1] # Arg1
              /\ Has(glove_vectors, result.val[i][1])
        /\ \A i, j \in 1..Len(result.val) :
              i # j => result.val[i][1] # result.val[j][1]

\* C2 witness: a ranking of at least two words, from a store in which some
\* other word has the very vector of the query word.
C2_Witness ==
    /\ RankedPresent
    /\ result.kind = "list"
    /\ Len(result.val) >= 2
    /\ \E w \in Candidates(Arg1) : Get(glove_vectors, w) = Get(glove_vectors, Arg1)

----------------------------------------------------------------------------
(* C5 *)

\* C5: once the store is built, no step changes it: same keys, same order,
\* same vectors.
C5_StoreNeverMutated ==
    [][(pc \in {"loaded", "answered"}) => (glove_vectors' = glove_vectors)]_vars

\* C5 witness: a ranking query has been answered with a list on a store of
\* several words.
C5_Witness ==
    /\ pc = "answered"
    /\ call.op = "find_most_similar"
    /\ result.kind = "list"
    /\ Len(result.val) >= 1
    /\ Len(glove_vectors) >= 3

----------------------------------------------------------------------------
(* C6 *)

\* C6: from well-formed lines the loader builds one entry per distinct first
\* token, holding the vector of the last line that starts with it.
C6_LastWriteWins ==
    call.op = "load_glove_model" =>
        LET File == Arg1 IN
        (\A i \in 1..Len(File) : WellFormed(File[i])) =>
            /\ result.kind = "dict"
            /\ Keys(result.val) = {File[i][1] : i \in 1..Len(File)}
            /\ \A i, j \in 1..Len(result.val) :
                  i # j => result.val[i][1] # result.val[j][1]
            /\ \A w \in Keys(result.val) :
                  Get(result.val, w) = np_array(Tail(File[LastLineOf(File, w)]))

\* C6 witness: a well-formed file in which a word comes back with another
\* vector after a line for another word, loaded.
C6_Witness ==
    /\ call.op = "load_glove_model"
    /\ result.kind = "dict"
    /\ LET File == Arg1 IN
       /\ Len(File) = 3
       /\ \A i \in 1..3 : WellFormed(File[i])
       /\ File[1][1] = File[3][1]
       /\ File[1][1] # File[2][1]
       /\ Tail(File[1]) # Tail(File[3])

----------------------------------------------------------------------------
(* C8 *)

\* C8: a file with a non-numeric vector token makes the loader raise and
\* leaves no store, not even the lines before the bad one; a file of lines
\* that all parse gives a store with every line's word.
C8_AllOrNothing ==
    call.op = "load_glove_model" =>
        LET File == Arg1 IN
        /\ (\E i \in 1..Len(File) : NonNumeric(File[i])) =>
              /\ result.kind = "raise"
              /\ pc = "raised"
              /\ glove_vectors = <<>>
        /\ (\A i \in 1..Len(File) : Parses(File[i])) =>
              /\ result.kind = "dict"
              /\ pc = "loaded"
              /\ glove_vectors = result.val
              /\ \A i \in 1..Len(File) : Has(glove_vectors, File[i][1])

\* C8 witness: the loader raised ValueError on the third line, after two
\* lines that parse.
C8_Witness ==
    /\ call.op = "load_glove_model"
    /\ result = Raise("ValueError")
    /\ LET File == Arg1 IN
       /\ Len(File) = 3
       /\ WellFormed(File[1])
       /\ WellFormed(File[2])
       /\ NonNumeric(File[3])

----------------------------------------------------------------------------
(* C3 *)

\* C3: for a present word and positive n, find_most_similar returns a list
\* of exactly min(n, vocabulary size - 1) pairs in which no later score is
\* greater than an earlier one.
C3_LengthAndOrder ==
    RankedPresent =>
        /\ result.kind = "list"
        /\ Len(result.val) = Min(Arg2, Len(glove_vectors) - 1)
        /\ \A i, j \in 1..Len(result.val) :
              i < j => ~ScoreLt(result.val[i][2], result.val[j][2])

----------------------------------------------------------------------------
(* C4 *)

\* C4: the list find_most_similar returns is the true top_n: no candidate
\* left out scores higher than a returned pair, and each returned score is
\* the pairwise score of the query word and that word.
C4_TrueTopN ==
    (RankedPresent /\ result.kind = "list") =>
        LET returned == {result.val[i][1] : i \in 1..Len(result.val)} IN
        /\ \A i \in 1..Len(result.val) :
              result.val[i][2] = ScoreOf(Arg1, result.val[i][1])
        /\ \A c \in Candidates(Arg1) \ returned :
              \A i \in 1..Len(result.val) :
                  ~ScoreLt(result.val[i][2], ScoreOf(Arg1, c))

----------------------------------------------------------------------------
(* C7 *)

\* C7: a store the loader returns holds vectors of one length, the number of
\* numeric tokens of the first line and at least 1; a line with another
\* number of tokens makes the loader raise.
C7_OneDimensionality ==
    call.op = "load_glove_model" =>
        LET File == Arg1 IN
        /\ result.kind = "dict" =>
              \A i \in 1..Len(result.val) :
                  /\ Len(result.val[i][2]) = Len(File[1]) - 1
                  /\ Len(result.val[i][2]) >= 1
        /\ (\E i \in 1..Len(File) : Len(File[i]) # Len(File[1])) =>
              result.kind = "raise"

----------------------------------------------------------------------------
(* C9 *)

\* C9: cosine_similarity of two present words one of which has norm 0
\* signals an outcome of its own instead of a computed value, and no score
\* returned alone or in a ranking is the NaN of a division by zero.
C9_ZeroNormSignalled ==
    /\ (/\ call.op = "cosine_similarity"
        /\ Has(glove_vectors, Arg1)
        /\ Has(glove_vectors, Arg2)
        /\ \/ normsq(Get(glove_vectors, Arg1)) = 0
           \/ normsq(Get(glove_vectors, Arg2)) = 0)
       => result.kind \notin {"float", "None"}
    /\ (call.op = "cosine_similarity" /\ result.kind = "float")
       => ~IsNaN(result.val)
    /\ (call.op = "find_most_similar" /\ result.kind = "list")
       => \A i \in 1..Len(result.val) : ~IsNaN(result.val[i][2])

----------------------------------------------------------------------------
(* C10 *)

\* C10: two returned candidates of equal score stand in the order of their
\* insertion into the store, and of equal candidates cut apart by top_n the
\* earlier inserted one is the one kept.
C10_StableTieBreak ==
    (RankedPresent /\ result.kind = "list") =>
        LET returned == {result.val[i][1] : i \in 1..Len(result.val)} IN
        /\ \A i, j \in 1..Len(result.val) :
              (i < j /\ ScoreEq(result.val[i][2], result.val[j][2]))
              => Pos(result.val[i][1]) < Pos(result.val[j][1])
        /\ \A c \in Candidates(Arg1) \ returned :
              \A i \in 1..Len(result.val) :
                  ScoreEq(result.val[i][2], ScoreOf(Arg1, c))
                  => Pos(result.val[i][1]) < Pos(c)

====
